---- MODULE Spec2Model ----
(***************************************************************************)
(* Treasury API (src/main.py): an in-memory credit ledger (user_credits)   *)
(* whose entries are credited by POST /api/treasury/receive and redeemed   *)
(* by POST /api/claim/earnings through an on-chain transfer from one       *)
(* treasury account; POST /api/transfer/eth sends from the treasury        *)
(* without consulting the ledger.                                          *)
(*                                                                         *)
(* Scheduling.  Every handler is an `async def` that never awaits: the     *)
(* web3 client is the synchronous one (Web3.HTTPProvider, line 55), so a   *)
(* handler occupies the single event loop of uvicorn.run (line 319) from   *)
(* its first line to its return or raise, the 120 s receipt wait included. *)
(* Requests that are concurrent at the socket are therefore dispatched one *)
(* after the other; only the chain acts while a handler is blocked in      *)
(* wait_for_transaction_receipt.                                           *)
(*                                                                         *)
(* Numbers.  amountETH and every ledger balance are Python floats (binary  *)
(* floating point, round to nearest, ties to even).  A float is modelled   *)
(* by the integer x with value x / 2^FracBits and a significand of at most *)
(* FloatBits bits; CPython has 53 bits, the model keeps FloatBits small so *)
(* that the arithmetic stays inside TLC's integers.  On-chain amounts are  *)
(* integers of the base unit, 10^-DecimalPlaces of the currency unit.      *)
(* A request body is parsed by json.loads, which reads the literal NaN,    *)
(* and the float fields of the request models take it; NaN is modelled by  *)
(* one integer below every finite value the model forms, and every         *)
(* comparison and sum of floats goes through FLess, FLessEq, FAdd, FSub.   *)
(***************************************************************************)
EXTENDS Integers, Sequences, FiniteSets, TLC

VARIABLES
    user_credits,   \* the dict of line 30
    web3_ready,     \* the flag of lines 35 and 60
    treasury,       \* whether Account.from_key gave an account (line 44)
    chain_nonce,    \* the chain: mined transactions of the treasury account
    mempool,        \* the chain: broadcast transactions not yet mined
    broadcasts,     \* every transaction handed to send_raw_transaction
    history,        \* per ledger key, the credits and debits applied to it
    req             \* the request the event loop is handling or handled last

vars == <<user_credits, web3_ready, treasury, chain_nonce, mempool,
          broadcasts, history, req>>

(***************************************************************************)
(* Bounds of the model.                                                    *)
(***************************************************************************)
\* significand bits of the modelled float
FloatBits == 6
\* decimal places of the base unit below the currency unit
DecimalPlaces == 3
\* ledger mutations (credits and debits) explored
MaxOps == 2
\* transactions handed to send_raw_transaction explored
MaxTx == 1
\* the same two bounds for the runs of one identity's credits and claims
RedeemOps == 3
RedeemTx == 2

(***************************************************************************)
(* Binary floating point.                                                  *)
(***************************************************************************)
RECURSIVE Pow(_, _)
Pow(b, n) == IF n = 0 THEN 1 ELSE b * Pow(b, n - 1)

\* floats are multiples of 2^-FracBits: full precision down to 2^-10
FracBits == FloatBits + 9

\* the integer nearest to num/den, ties to the even one (num >= 0, den > 0)
RoundHalfEven(num, den) ==
    LET q == num \div den
        r == num % den
    IN  IF 2 * r > den \/ (2 * r = den /\ q % 2 = 1) THEN q + 1 ELSE q

\* the spacing of the floats around num/den (in units of 2^-FracBits)
RECURSIVE UlpFrom(_, _, _)
UlpFrom(num, den, u) ==
    IF (num \div den) < Pow(2, FloatBits) * u THEN u
    ELSE UlpFrom(num, den, 2 * u)

\* num/den (num >= 0, in units of 2^-FracBits) rounded to a float
RoundQ(num, den) ==
    LET u == UlpFrom(num, den, 1)
    IN  RoundHalfEven(num, den * u) * u

\* an exact sum or difference of floats, rounded: the result of + and -
RoundFloat(x) == IF x < 0 THEN -RoundQ(-x, 1) ELSE RoundQ(x, 1)

\* the float nearest to the decimal n/d: float("n/d"), float(Decimal(n)/d)
ToFloat(n, d) ==
    IF n < 0 THEN -RoundQ((-n) * Pow(2, FracBits), d)
    ELSE RoundQ(n * Pow(2, FracBits), d)

\* float("nan"): unordered, and absorbing in sums
NaN == -Pow(2, FracBits + FloatBits)
IsNaN(x) == x = NaN

\* x < y and x <= y of floats: False when either side is NaN
FLess(x, y) == ~IsNaN(x) /\ ~IsNaN(y) /\ x < y
FLessEq(x, y) == ~IsNaN(x) /\ ~IsNaN(y) /\ x <= y

FAdd(x, y) == IF IsNaN(x) \/ IsNaN(y) THEN NaN ELSE RoundFloat(x + y)
FSub(x, y) == IF IsNaN(x) \/ IsNaN(y) THEN NaN ELSE RoundFloat(x - y)

(***************************************************************************)
(* Amounts.  A request carries amountETH as a decimal literal; the model   *)
(* names it by its count of base units.                                    *)
(***************************************************************************)
WeiPerEther == Pow(10, DecimalPlaces)
MilliEther == Pow(10, DecimalPlaces - 3)

\* the decimal amountETH literals explored: -0.001, 0, 0.001, 0.25
DecimalLiterals == {m * MilliEther : m \in {-1, 0, 1, 250}}
PositiveLiterals == {a \in DecimalLiterals : a > 0}

\* the amountETH literals explored: the decimal ones and NaN
AmountLiterals == DecimalLiterals \cup {NaN}

\* req.amountETH as the handler sees it
AmountETH(a) == IF IsNaN(a) THEN NaN ELSE ToFloat(a, WeiPerEther)

\* the literal 0.002 of lines 164 and 228
RESERVE == ToFloat(2, 1000)
ReserveWei == 2 * MilliEther

\* web3.from_wei(wei, 'ether') is the exact decimal; float() rounds it
FromWeiFloat(wei) == ToFloat(wei, WeiPerEther)

\* web3.to_wei(amountETH, 'ether'): Decimal(str(amountETH)) * 10^18; str()
\* of a float parsed from a short literal gives the literal back, so the
\* result is the literal's count of base units; a negative result raises
\* ValueError, and Decimal("nan") < 1 raises InvalidOperation
ToWeiRaises(a) == IsNaN(a) \/ a < 0
ToWei(a) == a

\* what web3.eth.get_balance(treasury_addr) may answer: the chain's balance
\* moves by deposits and fees outside the program
TreasuryBalances ==
    {2 * WeiPerEther}
    \cup {a + ReserveWei - d : a \in PositiveLiterals, d \in {0, 1}}

(***************************************************************************)
(* Address strings.  <<acct, casing>> is the 0x-prefixed 40-digit hex      *)
(* string of account acct in that letter casing ("checksum" is the mixed-   *)
(* case EIP-55 spelling).                                                  *)
(***************************************************************************)
NotConnected == <<"-", "not_connected">>
\* userWallet of ReceiveEarnings is Optional[str]; None and "" are both falsy
Empty == <<"-", "empty">>

AddressStrings ==
    {<<"A", "checksum">>, <<"A", "lower">>, <<"B", "checksum">>}

\* userWallet of a receive request
Wallets == AddressStrings \cup {NotConnected, Empty}
\* userWallet of a claim request and wallet_address of a lookup: any string;
\* the ones that are no address are all refused alike
ClaimWallets == AddressStrings \cup {NotConnected}
\* recipientAddress of a transfer request: the ledger plays no part in it
TransferWallets == {<<"A", "lower">>, NotConnected}

IsAddrString(w) == w \in AddressStrings

\* web3.is_address: a hex address; a mixed-case one must carry its checksum
is_address(w) == IsAddrString(w) /\ w[2] \in {"checksum", "lower"}

to_checksum_address(w) == <<w[1], "checksum">>

\* str.lower() of an address string
Lower(w) == IF IsAddrString(w) THEN <<w[1], "lower">> ELSE w

(***************************************************************************)
(* The dict user_credits: entries in insertion order.                      *)
(***************************************************************************)
HasKey(d, k) == \E i \in 1..Len(d) : d[i].key = k

IndexOf(d, k) == CHOOSE i \in 1..Len(d) : d[i].key = k

\* d.get(k, default)
Get(d, k, default) == IF HasKey(d, k) THEN d[IndexOf(d, k)].bal ELSE default

\* d[k] = v
Put(d, k, v) ==
    IF HasKey(d, k) THEN [d EXCEPT ![IndexOf(d, k)].bal = v]
    ELSE Append(d, [key |-> k, bal |-> v])

Keys(d) == {d[i].key : i \in 1..Len(d)}

(***************************************************************************)
(* Requests and responses.                                                 *)
(***************************************************************************)
\* an optional value is <<>> (None) or <<v>>
None == <<>>
Some(v) == <<v>>

NoReq ==
    [kind |-> "none", wallet |-> Empty, amt |-> 0, pc |-> "idle", tx |-> 0,
     receipt |-> "none", status |-> 0, detail |-> "", exc |-> "", body |-> None,
     pre |-> <<>>, seen |-> None, debits |-> 0, sent |-> 0, asked |-> FALSE]

\* the event loop dispatches a request when it is inside no handler
LoopFree == req.pc = "idle"

NewReq(kind, w, a) ==
    [NoReq EXCEPT !.kind = kind, !.wallet = w, !.amt = a, !.pre = user_credits]

\* raise HTTPException(status, detail) / return {...}
Respond(r, status, detail) ==
    [r EXCEPT !.pc = "done", !.status = status, !.detail = detail]

\* str(e): the text the raising library gave the exception
ExceptionText(exc) ==
    CASE exc = "TimeExhausted" -> "Transaction is not in the chain after 120 seconds"
      [] exc = "SendError" -> "{'code': -32000, 'message': 'replacement transaction underpriced'}"
      [] exc = "SignError" -> "Transaction had invalid fields"
      [] exc = "RpcError" -> "HTTPSConnectionPool: Max retries exceeded"
      [] exc = "ValueError" -> "value must be between 1 and 2**256 - 1"
      [] exc = "KeyError" -> "'0x...'"
      [] OTHER -> exc

\* except Exception as e: raise HTTPException(500, str(e))
RespondException(r, exc) ==
    [r EXCEPT !.pc = "done", !.status = 500, !.detail = ExceptionText(exc), !.exc = exc]

\* return {...}: the dict is rendered with json.dumps(allow_nan=False), which
\* raises on a NaN among the values and leaves the framework's bare 500
Return(r, detail, values, body) ==
    IF \E v \in values : IsNaN(v)
    THEN [r EXCEPT !.pc = "done", !.status = 500, !.detail = "Internal Server Error",
                   !.exc = "RenderError", !.body = None]
    ELSE [r EXCEPT !.pc = "done", !.status = 200, !.detail = detail, !.body = body]

OpsApplied == LET RECURSIVE Sum(_)
                  Sum(S) == IF S = {} THEN 0
                            ELSE LET k == CHOOSE k \in S : TRUE
                                 IN  Len(history[k]) + Sum(S \ {k})
              IN  Sum(AddressStrings)

Init ==
    /\ user_credits = <<>>
    /\ web3_ready \in BOOLEAN
    /\ treasury \in BOOLEAN
    /\ web3_ready => treasury
    /\ chain_nonce = 0
    /\ mempool = {}
    /\ broadcasts = <<>>
    /\ history = [k \in AddressStrings |-> <<>>]
    /\ req = NoReq

chain == <<chain_nonce, mempool, broadcasts>>
startup == <<web3_ready, treasury>>

(***************************************************************************)
(* POST /api/treasury/receive                                              *)
(***************************************************************************)
\* if req.userWallet and req.userWallet != "not_connected"
ReceiveCredits(w) == w # Empty /\ w # NotConnected

\* the credit is dropped
Credit_Dropped(d, w, amount) == d

Credit(d, w, amount) == Put(d, w, FAdd(Get(d, w, 0), amount))

receive_earnings(w, a) ==
    /\ LoopFree
    /\ LET r0 == NewReq("receive", w, a)
           \* lines 117-123: the treasury balance is asked of the chain for the
           \* reply alone; an error there is swallowed
           amount == AmountETH(a)
           r == [r0 EXCEPT !.asked = web3_ready /\ ~FLessEq(amount, 0)]
       IN  IF FLessEq(amount, 0)
           THEN /\ req' = Respond(r, 400, "Amount must be positive")
                /\ UNCHANGED <<user_credits, history>>
           ELSE IF ReceiveCredits(w)
           THEN /\ user_credits' = Credit(user_credits, w, amount)
                /\ history' = [history EXCEPT ![w] = Append(@, [op |-> "credit", amount |-> amount])]
                /\ req' = LET total == Get(user_credits', w, 0)
                          IN  Return(r, "Earnings tracked successfully",
                                     {amount, total}, Some(total))
           ELSE /\ req' = IF w # NotConnected
                          THEN LET total == Get(user_credits, w, 0)
                               IN  Return(r, "Earnings tracked successfully",
                                          {amount, total}, Some(total))
                          ELSE Return(r, "Earnings tracked successfully", {amount}, None)
                /\ UNCHANGED <<user_credits, history>>
    /\ UNCHANGED <<startup, chain>>

(***************************************************************************)
(* The on-chain steps shared by the claim and the transfer handlers.       *)
(***************************************************************************)
\* if treasury_balance < req.amountETH + 0.002
TreasuryLow(bal, a) == FLess(FromWeiFloat(bal), FAdd(AmountETH(a), RESERVE))

\* lines 162-177 and 226-241: the liquidity check, the transaction, its
\* signature and its broadcast, for the request r paying `dest`.  Every call
\* into the chain gateway or the signer may raise instead of returning.
Settle(r0, dest, low_detail) ==
    LET r == [r0 EXCEPT !.asked = TRUE] IN
    \/ \* web3.eth.get_balance raises
       req' = RespondException(r, "RpcError") /\ UNCHANGED chain
    \/ \E bal \in TreasuryBalances :
           LET seen == [r EXCEPT !.seen = Some(bal)]
               tx == [nonce |-> chain_nonce]
               id == Len(broadcasts) + 1
           IN  IF TreasuryLow(bal, r.amt)
               THEN req' = Respond(seen, 400, low_detail) /\ UNCHANGED chain
               ELSE IF ToWeiRaises(r.amt)
               THEN req' = RespondException(seen, "ValueError") /\ UNCHANGED chain
               ELSE \/ \* web3.eth.gas_price or get_transaction_count raises
                       req' = RespondException(seen, "RpcError") /\ UNCHANGED chain
                    \/ \* treasury.sign_transaction raises
                       req' = RespondException(seen, "SignError") /\ UNCHANGED chain
                    \/ /\ broadcasts' = Append(broadcasts, tx)
                       /\ UNCHANGED chain_nonce
                       /\ \/ \* send_raw_transaction raises; the node may
                             \* have taken the transaction all the same
                             /\ req' = [RespondException(seen, "SendError") EXCEPT !.sent = 1]
                             /\ mempool' \in {mempool, mempool \cup {id}}
                          \/ /\ req' = [seen EXCEPT !.pc = "awaiting", !.tx = id, !.sent = 1]
                             /\ mempool' = mempool \cup {id}

(***************************************************************************)
(* POST /api/claim/earnings                                                *)
(***************************************************************************)
\* the check reads the wrong way round
InsufficientCredits_Reversed(credits, amount) == FLess(amount, credits)

\* if credits < req.amountETH
InsufficientCredits(credits, amount) == FLess(credits, amount)

\* user_credits[user_addr] -= req.amountETH
Debit(d, k, amount) == Put(d, k, FSub(Get(d, k, 0), amount))

\* lines 144-177: up to the broadcast
claim_begin(w, a) ==
    /\ LoopFree
    /\ LET r == NewReq("claim", w, a)
           user_addr == to_checksum_address(w)
           credits == Get(user_credits, user_addr, 0)
       IN  IF ~web3_ready \/ ~treasury
           THEN req' = Respond(r, 503, "Treasury not initialized") /\ UNCHANGED chain
           ELSE IF ~is_address(w)
           THEN req' = Respond(r, 400, "Invalid address") /\ UNCHANGED chain
           ELSE IF InsufficientCredits(credits, AmountETH(a))
           THEN req' = Respond(r, 400, "Need") /\ UNCHANGED chain
           ELSE Settle(r, user_addr, "Treasury low")
    /\ UNCHANGED <<startup, user_credits, history>>

\* lines 181-211: the wait is over with a receipt
claim_finish(gas_price_raises) ==
    /\ req.kind = "claim" /\ req.pc = "awaiting" /\ req.receipt \in {"success", "reverted"}
    /\ LET user_addr == to_checksum_address(req.wallet)
           amount == AmountETH(req.amt)
       IN  IF req.receipt = "reverted"
           THEN req' = Respond(req, 500, "TX reverted") /\ UNCHANGED <<user_credits, history>>
           ELSE IF gas_price_raises
           THEN req' = RespondException(req, "RpcError") /\ UNCHANGED <<user_credits, history>>
           ELSE IF ~HasKey(user_credits, user_addr)
           THEN req' = RespondException(req, "KeyError") /\ UNCHANGED <<user_credits, history>>
           ELSE /\ user_credits' = Debit(user_credits, user_addr, amount)
                /\ history' = [history EXCEPT ![user_addr] =
                                  Append(@, [op |-> "debit", amount |-> amount])]
                /\ req' = LET remaining == Get(user_credits', user_addr, 0)
                               r == [req EXCEPT !.debits = @ + 1]
                          IN  Return(r, "success", {amount, remaining}, Some(remaining))
    /\ UNCHANGED <<startup, chain>>

(***************************************************************************)
(* POST /api/transfer/eth                                                  *)
(***************************************************************************)
transfer_begin(w, a) ==
    /\ LoopFree
    /\ LET r == NewReq("transfer", w, a)
       IN  IF ~web3_ready \/ ~treasury
           THEN req' = Respond(r, 503, "Not initialized") /\ UNCHANGED chain
           ELSE IF ~is_address(w)
           THEN req' = Respond(r, 400, "Invalid address") /\ UNCHANGED chain
           ELSE Settle(r, to_checksum_address(w), "Low")
    /\ UNCHANGED <<startup, user_credits, history>>

\* the transfer is charged to the recipient's ledger entry
transfer_finish_Debit(gas_price_raises) ==
    /\ req.kind = "transfer" /\ req.pc = "awaiting" /\ req.receipt \in {"success", "reverted"}
    /\ req' = Respond(req, 200, "success")
    /\ user_credits' = Debit(user_credits, to_checksum_address(req.wallet), AmountETH(req.amt))
    /\ UNCHANGED <<startup, chain, history>>

transfer_finish(gas_price_raises) ==
    /\ req.kind = "transfer" /\ req.pc = "awaiting" /\ req.receipt \in {"success", "reverted"}
    /\ req' = IF req.receipt = "reverted" THEN Respond(req, 500, "Failed")
              ELSE IF gas_price_raises THEN RespondException(req, "RpcError")
              ELSE Return(req, "success", {}, None)
    /\ UNCHANGED <<startup, chain, user_credits, history>>

\* the wait is given up and the transaction is submitted a second time
wait_timeout_Resubmit ==
    /\ req.pc = "awaiting" /\ req.receipt = "none"
    /\ broadcasts' = Append(broadcasts, [nonce |-> chain_nonce])
    /\ mempool' = mempool \cup {Len(broadcasts) + 1}
    /\ req' = [RespondException(req, "TimeExhausted") EXCEPT !.sent = @ + 1]
    /\ UNCHANGED <<startup, chain_nonce, user_credits, history>>

\* wait_for_transaction_receipt(tx_hash, timeout=120) raises TimeExhausted
wait_timeout ==
    /\ req.pc = "awaiting" /\ req.receipt = "none"
    /\ req' = RespondException(req, "TimeExhausted")
    /\ UNCHANGED <<startup, chain, user_credits, history>>

(***************************************************************************)
(* GET /api/user/credits/{wallet_address}                                  *)
(***************************************************************************)
\* the first key, in dict order, that equals the address without regard to case
RECURSIVE ScanCredits(_, _, _)
ScanCredits(d, addr_lower, i) ==
    IF i > Len(d) THEN 0
    ELSE IF Lower(d[i].key) = addr_lower THEN d[i].bal
    ELSE ScanCredits(d, addr_lower, i + 1)

get_user_credits(w) ==
    /\ LoopFree
    /\ LET r == NewReq("credits", w, 0)
           credits == ScanCredits(user_credits, Lower(w), 1)
       IN  req' = IF ~IsAddrString(w) THEN Respond(r, 400, "Invalid address format")
                  ELSE Return(r, "credits", {credits}, Some(credits))
    /\ UNCHANGED <<startup, chain, user_credits, history>>

\* the handler has returned or raised: the response goes out and the event
\* loop is free for the next request
respond ==
    /\ req.pc = "done"
    /\ req' = NoReq
    /\ UNCHANGED <<startup, chain, user_credits, history>>

(***************************************************************************)
(* The chain.                                                              *)
(***************************************************************************)
\* a pending transaction with the account's next nonce is mined with the
\* given status; pending transactions with the same nonce are dropped
chain_mine(id, status) ==
    /\ id \in mempool
    /\ broadcasts[id].nonce = chain_nonce
    /\ chain_nonce' = chain_nonce + 1
    /\ mempool' = {j \in mempool : broadcasts[j].nonce # chain_nonce}
    /\ req' = IF req.pc = "awaiting" /\ req.tx = id
              THEN [req EXCEPT !.receipt = status] ELSE req
    /\ UNCHANGED <<startup, broadcasts, user_credits, history>>

\* the part of the state space explored: at most `ops` ledger mutations and
\* `txs` transactions
Within(ops, txs) == OpsApplied <= ops /\ Len(broadcasts) <= txs

Next ==
    \/ \E w \in Wallets, a \in AmountLiterals :
          receive_earnings(w, a) /\ Within(MaxOps, MaxTx)'
    \/ \E w \in ClaimWallets, a \in AmountLiterals :
          claim_begin(w, a) /\ Within(MaxOps, MaxTx)'
    \/ \E g \in BOOLEAN : claim_finish(g) /\ Within(MaxOps, MaxTx)'
    \/ \E w \in TransferWallets, a \in AmountLiterals :
          transfer_begin(w, a) /\ Within(MaxOps, MaxTx)'
    \/ \E g \in BOOLEAN : transfer_finish(g)
    \/ wait_timeout
    \/ \E w \in ClaimWallets : get_user_credits(w)
    \/ respond
    \/ \E id \in mempool, status \in {"success", "reverted"} : chain_mine(id, status)

Spec == Init /\ [][Next]_vars

(***************************************************************************)
(* One identity's credits and claims on a connected service: the requests  *)
(* all name the checksummed address of account A.                          *)
(***************************************************************************)
RedeemWallet == <<"A", "checksum">>

InitRedeem == Init /\ web3_ready

NextRedeem ==
    \/ \E a \in PositiveLiterals :
          receive_earnings(RedeemWallet, a) /\ Within(RedeemOps, RedeemTx)'
    \/ \E a \in PositiveLiterals :
          claim_begin(RedeemWallet, a) /\ Within(RedeemOps, RedeemTx)'
    \/ \E g \in BOOLEAN : claim_finish(g) /\ Within(RedeemOps, RedeemTx)'
    \/ wait_timeout
    \/ respond
    \/ \E id \in mempool, status \in {"success", "reverted"} : chain_mine(id, status)

SpecRedeem == InitRedeem /\ [][NextRedeem]_vars

(***************************************************************************)
(* Properties.                                                             *)
(***************************************************************************)
ClaimDone == req.kind = "claim" /\ req.pc = "done"
ReceiveDone == req.kind = "receive" /\ req.pc = "done"

\* balanceOf: the entry under key k, zero without one
Balance(d, k) == Get(d, k, 0)

\* the entries of d other than k are those of e, with the same balances
SameExcept(d, e, k) ==
    \A x \in (Keys(d) \cup Keys(e)) \ {k} :
        HasKey(d, x) /\ HasKey(e, x) /\ Get(d, x, 0) = Get(e, x, 0)

\* the ledger key of a claim
ClaimKey == to_checksum_address(req.wallet)

\* what the caller receives
Response(r) == <<r.status, r.detail>>

\* the class of a response by its status code: 2 success, 4 client fault,
\* 5 server fault
OutcomeClass(r) == r.status \div 100

\* the balance of a key after the first n operations applied to it
RECURSIVE Replay(_, _)
Replay(h, n) ==
    IF n = 0 THEN 0
    ELSE IF h[n].op = "credit" THEN FAdd(Replay(h, n - 1), h[n].amount)
    ELSE FSub(Replay(h, n - 1), h[n].amount)

\* C1: a claim debits the ledger only after a receipt with status success;
\* once it has returned, the claiming identity's balance is lower by the
\* requested amount, once, if the receipt's status was success, and the
\* whole ledger is as before the request otherwise (reverted, timed out).
C1_DebitIffConfirmed ==
    /\ (req.kind = "claim" /\ req.debits > 0) => req.receipt = "success"
    /\ ClaimDone =>
         IF req.receipt = "success"
         THEN /\ ~IsNaN(Balance(req.pre, ClaimKey))
              /\ ~IsNaN(Balance(user_credits, ClaimKey))
              /\ Balance(req.pre, ClaimKey) - Balance(user_credits, ClaimKey)
                   = AmountETH(req.amt)
              /\ SameExcept(user_credits, req.pre, ClaimKey)
         ELSE user_credits = req.pre

\* a claim of a positive amount was confirmed on the chain and returned with
\* the ledger as it was before the request
C1_Witness ==
    /\ ClaimDone /\ req.receipt = "success" /\ req.amt \in PositiveLiterals
    /\ user_credits = req.pre

\* C2: of two claims of one identity that follow each other with no other
\* change of its balance, each for no more than the balance before the first
\* and together for more than it, at most one ends confirmed with a debit.
C2_NoJointOverdraft ==
    \A k \in AddressStrings : \A i \in 1..(Len(history[k]) - 1) :
        LET h == history[k]
            start == Replay(h, i - 1)
        IN  ~ /\ h[i].op = "debit" /\ h[i + 1].op = "debit"
              /\ FLessEq(h[i].amount, start) /\ FLessEq(h[i + 1].amount, start)
              /\ h[i].amount + h[i + 1].amount > start

\* two claims were confirmed and debited, 0.001 and then 0.25, against the
\* 0.25 credited
C2_Witness ==
    \E k \in AddressStrings :
        /\ Len(history[k]) = 3
        /\ history[k][1].op = "credit"
        /\ history[k][2].op = "debit" /\ history[k][3].op = "debit"
        /\ history[k][2].amount + history[k][3].amount > history[k][1].amount
        /\ Balance(user_credits, k) = 0

\* C3: every balance stored in the ledger is >= 0.
C3_NonNegative ==
    \A i \in 1..Len(user_credits) : FLessEq(0, user_credits[i].bal)

\* a receive has left an entry whose balance is not a number
C3_Witness ==
    /\ ReceiveDone /\ HasKey(user_credits, req.wallet)
    /\ IsNaN(Balance(user_credits, req.wallet))

\* C4: no two keys of the ledger differ only in letter casing.
C4_OneEntryPerAddress ==
    \A i, j \in 1..Len(user_credits) :
        i # j => Lower(user_credits[i].key) # Lower(user_credits[j].key)

\* both spellings of account A are keys
C4_Witness ==
    HasKey(user_credits, <<"A", "lower">>) /\ HasKey(user_credits, <<"A", "checksum">>)

\* the chain gateway and the signer did their part for the request: no call
\* raised, the treasury was found liquid, the transaction was not reverted
Cooperative ==
    /\ req.exc \notin {"RpcError", "SignError", "SendError", "TimeExhausted"}
    /\ req.receipt # "reverted"
    /\ req.detail \notin {"Treasury low", "Low"}

\* C5: a receive of a > 0 into an empty entry of a valid address string and
\* then a claim of a for the same string, the treasury liquid and the
\* transaction confirmed, returns success and leaves the balance at 0.
C5_CreditThenClaim ==
    ( /\ ClaimDone /\ web3_ready /\ Cooperative
      /\ is_address(req.wallet) /\ req.amt \in PositiveLiterals
      /\ Len(history[req.wallet]) >= 1
      /\ history[req.wallet][1] = [op |-> "credit", amount |-> AmountETH(req.amt)]
      /\ Len(history[req.wallet]) = 1 + (IF req.wallet = ClaimKey THEN req.debits ELSE 0) )
    => /\ req.status = 200
       /\ Balance(user_credits, req.wallet) = 0

\* the amount credited under the lower-case spelling is refused to a claim
\* made with the same spelling
C5_Witness ==
    /\ ClaimDone /\ req.wallet = <<"A", "lower">> /\ req.amt \in PositiveLiterals
    /\ history[req.wallet] = <<[op |-> "credit", amount |-> AmountETH(req.amt)]>>
    /\ Response(req) = <<400, "Need">>

\* a claim for an address of the right form that asks for more than the
\* identity's balance
Overdrawn ==
    /\ ClaimDone /\ is_address(req.wallet)
    /\ FLess(Balance(req.pre, ClaimKey), AmountETH(req.amt))

\* C6 as stated: a claim for more than the identity's balance always fails
\* with InsufficientCredits, changes no balance and broadcasts nothing.
C6_Original ==
    Overdrawn => /\ Response(req) = <<400, "Need">>
                 /\ user_credits = req.pre
                 /\ req.sent = 0

\* C6 amended: on a chain-connected service a claim for more than the
\* identity's balance fails with InsufficientCredits; in ledger-only mode it
\* fails with the ChainUnreachable outcome; either way no balance changes
\* and nothing is broadcast.
C6_Overdrawn ==
    Overdrawn => /\ Response(req) = IF web3_ready /\ treasury THEN <<400, "Need">>
                                    ELSE <<503, "Treasury not initialized">>
                 /\ user_credits = req.pre
                 /\ req.sent = 0 /\ req.tx = 0

\* a claim for more than a positive balance was refused
C6_Witness ==
    /\ Overdrawn /\ FLess(0, Balance(req.pre, ClaimKey))
    /\ Response(req) = <<400, "Need">>

\* C7: a claim with amount <= 0 (on a connected service, for an address of
\* the right form) is rejected with InvalidAmount; nothing is broadcast for
\* it and the ledger is unchanged.
C7_NonPositiveClaim ==
    (ClaimDone /\ web3_ready /\ is_address(req.wallet) /\ FLessEq(AmountETH(req.amt), 0))
    => /\ Response(req) = <<400, "Amount must be positive">>
       /\ req.sent = 0
       /\ user_credits = req.pre

\* a transaction was broadcast for a claim of amount 0
C7_Witness == req.kind = "claim" /\ req.amt = 0 /\ req.sent = 1

\* C8: a receive with amount <= 0 fails with InvalidAmount and leaves the
\* ledger as it was; with amount > 0 and a usable identity it adds exactly
\* the amount to the identity's balance and returns the new balance.
C8_Receive ==
    ReceiveDone =>
        IF FLessEq(AmountETH(req.amt), 0)
        THEN Response(req) = <<400, "Amount must be positive">> /\ user_credits = req.pre
        ELSE (FLess(0, AmountETH(req.amt)) /\ ReceiveCredits(req.wallet)) =>
               /\ req.status = 200
               /\ ~IsNaN(Balance(req.pre, req.wallet))
               /\ Balance(user_credits, req.wallet)
                    = Balance(req.pre, req.wallet) + AmountETH(req.amt)
               /\ req.body = Some(Balance(user_credits, req.wallet))
               /\ SameExcept(user_credits, req.pre, req.wallet)

\* a receive of a positive amount returned with the balance it found
C8_Witness ==
    /\ ReceiveDone /\ req.status = 200 /\ ReceiveCredits(req.wallet)
    /\ FLess(0, AmountETH(req.amt))
    /\ FLess(0, Balance(req.pre, req.wallet))
    /\ Balance(user_credits, req.wallet) = Balance(req.pre, req.wallet)

\* C9: a claim or transfer that reaches the liquidity check is rejected with
\* TreasuryIlliquid exactly when the queried balance, in base units, is less
\* than the requested amount plus the reserve.
C9_LiquidityBoundary ==
    (req.kind \in {"claim", "transfer"} /\ req.seen # None /\ ~IsNaN(req.amt))
    => ( (req.detail \in {"Treasury low", "Low"})
         <=> (req.seen[1] < ToWei(req.amt) + ReserveWei) )

\* a balance of exactly amount + reserve was refused, and a balance one base
\* unit below amount + reserve was let through
C9_Witness ==
    /\ req.kind \in {"claim", "transfer"} /\ req.seen # None
    /\ req.amt \in PositiveLiterals
    /\ \/ req.seen[1] = ToWei(req.amt) + ReserveWei /\ req.detail \in {"Treasury low", "Low"}
       \/ req.seen[1] = ToWei(req.amt) + ReserveWei - 1 /\ req.sent = 1

\* C10: a claim whose confirmation wait timed out returns an outcome of its
\* own: its class is none of those returned for a broadcast failure, a
\* signing failure or a revert; and the ledger is as before the request.
C10_TimedOutDistinct ==
    (ClaimDone /\ req.exc = "TimeExhausted")
    => /\ OutcomeClass(req) \notin {OutcomeClass(RespondException(req, "SendError")),
                                    OutcomeClass(RespondException(req, "SignError")),
                                    OutcomeClass(Respond(req, 500, "TX reverted"))}
       /\ user_credits = req.pre

\* a timed-out claim returned as the server fault a broadcast failure is
\* returned as, with the ledger untouched
C10_Witness ==
    /\ ClaimDone /\ req.exc = "TimeExhausted"
    /\ OutcomeClass(req) = OutcomeClass(RespondException(req, "SendError"))
    /\ user_credits = req.pre

LookupDone == req.kind = "credits" /\ req.pc = "done"

\* C11: in ledger-only mode (the start-up connection failed) a claim or a
\* transfer returns the ChainUnreachable server fault, changes no ledger
\* entry, asks nothing of the chain and broadcasts nothing; a receive is
\* refused only for its amount, never for the chain, and credits the entry it
\* names; a lookup reads the ledger and answers with the balance of an entry
\* of the address, or 0 when there is none.
C11_LedgerOnly ==
    ~web3_ready =>
      /\ broadcasts = <<>> /\ mempool = {}
      /\ req.kind \in {"claim", "transfer"} =>
           /\ req.pc = "done" /\ req.status = 503
           /\ user_credits = req.pre /\ req.sent = 0 /\ ~req.asked
      /\ ReceiveDone =>
           /\ ~req.asked /\ req.exc \notin {"RpcError", "SignError", "SendError"}
           /\ IF FLessEq(AmountETH(req.amt), 0)
              THEN req.status = 400 /\ user_credits = req.pre
              ELSE /\ OutcomeClass(req) # 4
                   /\ (req.amt \in PositiveLiterals
                         /\ ~IsNaN(Balance(user_credits, req.wallet)))
                      => req.status = 200
                   /\ IF req.wallet \in AddressStrings
                      THEN /\ HasKey(user_credits, req.wallet)
                           /\ Balance(user_credits, req.wallet)
                                = FAdd(Balance(req.pre, req.wallet), AmountETH(req.amt))
                           /\ SameExcept(user_credits, req.pre, req.wallet)
                      ELSE user_credits = req.pre
      /\ LookupDone =>
           /\ ~req.asked /\ user_credits = req.pre
           /\ req.wallet \in AddressStrings =>
                \/ req.exc = "RenderError"
                \/ /\ req.status = 200
                   /\ \/ \E i \in 1..Len(user_credits) :
                            /\ Lower(user_credits[i].key) = Lower(req.wallet)
                            /\ req.body = Some(user_credits[i].bal)
                      \/ /\ req.body = Some(0)
                         /\ \A i \in 1..Len(user_credits) :
                               Lower(user_credits[i].key) # Lower(req.wallet)

\* in ledger-only mode an address was credited and its claim for no more
\* than the credit was answered with the ChainUnreachable fault
C11_Witness ==
    /\ ~web3_ready /\ ClaimDone /\ req.status = 503
    /\ req.amt \in PositiveLiterals
    /\ HasKey(user_credits, ClaimKey)
    /\ FLessEq(AmountETH(req.amt), Balance(user_credits, ClaimKey))

\* the exact sum of the credits less the debits among the first n operations
\* applied to a key
RECURSIVE Applied(_, _)
Applied(h, n) ==
    IF n = 0 THEN 0
    ELSE Applied(h, n - 1)
           + (IF h[n].op = "credit" THEN h[n].amount ELSE -h[n].amount)

\* the amount of the claim just answered, when its transaction was confirmed
\* and the handler made no debit for it
ConfirmedUndebited(k) ==
    IF ClaimDone /\ req.receipt = "success" /\ ClaimKey = k /\ req.debits = 0
    THEN AmountETH(req.amt) ELSE 0

\* C12: after each receive and each claim, the balance under a ledger key is
\* the sum of the amounts credited to it less the sum of the amounts of its
\* confirmed claims (amounts that are numbers).
C12_NoLostUpdate ==
    \A k \in AddressStrings :
        LET h == history[k]
        IN  (\A i \in 1..Len(h) : ~IsNaN(h[i].amount))
            => Balance(user_credits, k)
                 = Applied(h, Len(h)) - ConfirmedUndebited(k)

\* a claim was confirmed on the chain and answered as a server fault after
\* the gas price query failed; the balance is still the whole credit
C12_Witness ==
    /\ ClaimDone /\ req.receipt = "success" /\ req.exc = "RpcError"
    /\ req.amt \in PositiveLiterals
    /\ Len(history[ClaimKey]) = 1
    /\ Balance(user_credits, ClaimKey) = history[ClaimKey][1].amount

\* C13: a transaction is handed to send_raw_transaction only by the step
\* that takes up a claim or transfer request, and one at most; no step of a
\* request that is waiting for its receipt or has been answered (after a
\* signing error, a broadcast error, a timeout or a revert) submits another.
C13_OneBroadcast ==
    [][ /\ req'.sent <= 1
        /\ broadcasts' # broadcasts =>
             /\ req.pc = "idle"
             /\ req'.kind \in {"claim", "transfer"} /\ req'.sent = 1
             /\ Len(broadcasts') = Len(broadcasts) + 1
             /\ SubSeq(broadcasts', 1, Len(broadcasts)) = broadcasts
        /\ req.pc # "idle" =>
             /\ broadcasts' = broadcasts
             /\ req'.pc # "idle" => req'.sent = req.sent ]_vars

\* a request was answered after its confirmation wait timed out, and the one
\* transaction submitted is its own
C13_Witness ==
    /\ req.kind \in {"claim", "transfer"} /\ req.pc = "done"
    /\ req.exc = "TimeExhausted" /\ req.sent = 1
    /\ Len(broadcasts) = 1 /\ req.tx = 1

\* C14: from its first step to its answer a transfer request leaves the
\* ledger as it found it, and it is never refused for credits: on a connected
\* service, for a valid address and a positive amount that the treasury's
\* balance passes the liquidity check for, the transaction is submitted
\* unless the chain gateway or the signer raises.
C14_TransferFrame ==
    req.kind = "transfer" =>
        /\ user_credits = req.pre
        /\ req.detail # "Need"
        /\ ( /\ req.pc = "done" /\ web3_ready /\ is_address(req.wallet)
             /\ req.amt \in PositiveLiterals
             /\ req.seen # None /\ ~TreasuryLow(req.seen[1], req.amt) )
           => \/ req.sent = 1
              \/ req.exc \in {"RpcError", "SignError"}

\* a transfer to an address without a ledger entry was confirmed, next to
\* the entries of others
C14_Witness ==
    /\ req.kind = "transfer" /\ req.pc = "done" /\ req.status = 200
    /\ ~HasKey(user_credits, to_checksum_address(req.wallet))
    /\ Len(user_credits) > 0

\* C15: a receive asks nothing of the chain gateway and submits nothing; it
\* changes no entry but the one it names, and none at all when the identity
\* is absent, empty or "not_connected", in which case a positive amount is
\* still answered with success.
C15_ReceiveFrame ==
    ReceiveDone =>
        /\ ~req.asked /\ req.sent = 0
        /\ SameExcept(user_credits, req.pre, req.wallet)
        /\ ~ReceiveCredits(req.wallet) =>
             /\ user_credits = req.pre
             /\ FLess(0, AmountETH(req.amt)) => req.status = 200

\* a receive credited its entry and returned success after asking the chain
\* for the treasury's balance
C15_Witness ==
    /\ ReceiveDone /\ req.status = 200 /\ req.asked
    /\ req.wallet \in AddressStrings
    /\ FLess(Balance(req.pre, req.wallet), Balance(user_credits, req.wallet))

\* a claim has submitted its transaction and waits for the receipt
Suspended == req.kind = "claim" /\ req.pc = "awaiting" /\ req.receipt = "none"

\* C16: while a claim is suspended in its confirmation wait, a receive and a
\* credits lookup for any other account can be taken up and run to their
\* answers.
C16_Independent ==
    Suspended =>
        \A b \in AddressStrings :
            Lower(b) # Lower(req.wallet) =>
                /\ ENABLED get_user_credits(b)
                /\ \E a \in PositiveLiterals : ENABLED receive_earnings(b, a)

\* a claim for account A waits for its receipt, and neither a lookup nor a
\* receive for account B can be taken up
C16_Witness ==
    /\ Suspended /\ ClaimKey = <<"A", "checksum">>
    /\ ~ENABLED get_user_credits(<<"B", "checksum">>)
    /\ \A a \in PositiveLiterals : ~ENABLED receive_earnings(<<"B", "checksum">>, a)

\* what GET /api/user/credits/{w} reports in the ledger d
Reported(d, w) == ScanCredits(d, Lower(w), 1)

\* C17: a claim, on a connected service, for an address string and an amount
\* no greater than the balance the credits lookup reports for that string in
\* the same ledger state passes the claim's credit check.
C17_LookupAgreesWithClaim ==
    ( /\ ClaimDone /\ web3_ready /\ is_address(req.wallet)
      /\ FLessEq(AmountETH(req.amt), Reported(req.pre, req.wallet)) )
    => req.detail # "Need"

\* the lookup reports a positive balance for the lower-case spelling of A and
\* a claim for that spelling and no more than that balance is refused for
\* lack of credits
C17_Witness ==
    /\ ClaimDone /\ req.wallet = <<"A", "lower">> /\ req.detail = "Need"
    /\ FLess(0, AmountETH(req.amt))
    /\ FLessEq(AmountETH(req.amt), Reported(req.pre, req.wallet))

\* C18: a claim whose receipt arrived with status success is answered with
\* the success outcome, which carries the remaining balance.
C18_ConfirmedIsSuccess ==
    (ClaimDone /\ req.receipt = "success")
    => /\ req.status = 200 /\ req.detail = "success"
       /\ req.body = Some(Balance(user_credits, ClaimKey))

\* a claim of an address without a ledger entry was confirmed on the chain
\* and answered as a server fault
C18_Witness ==
    /\ ClaimDone /\ req.receipt = "success"
    /\ ~HasKey(req.pre, ClaimKey)
    /\ req.exc = "KeyError" /\ OutcomeClass(req) = 5

\* C19: no two transactions submitted from the treasury carry the same
\* nonce; stated of the transactions the node has taken and not yet mined
\* (one whose submission failed outright may have its nonce used again).
C19_UniqueNonces ==
    \A i, j \in mempool :
        i # j => broadcasts[i].nonce # broadcasts[j].nonce

\* the transaction of an earlier request is still pending and the claim now
\* waiting has submitted a second one with the same nonce
C19_Witness ==
    /\ Len(broadcasts) = 2 /\ mempool = {1, 2}
    /\ req.kind = "claim" /\ req.pc = "awaiting" /\ req.tx = 2
    /\ broadcasts[1].nonce = broadcasts[2].nonce
====
